---- MODULE Spec2Model ----
(***************************************************************************)
(* Model of the devbooks-api request handlers (src/src/app.controller.ts)  *)
(* over the relational store declared in src/prisma/schema.prisma.         *)
(*                                                                         *)
(* Spec     : every handler runs to completion before the next one starts  *)
(*            (any sequence of calls).                                     *)
(* ConcSpec : requests interleave at their awaited store calls.            *)
(* SignupSpec: the interleaved signup requests alone.                      *)
(***************************************************************************)
EXTENDS Integers, Sequences, FiniteSets, TLC

\* ---------------------------------------------------------------- bounds
MaxPage == 3            \* pages reported by clients are 0..MaxPage
MaxEntries == 2         \* rows the MyBooks table holds in Spec
MaxRequests == 4        \* requests issued in one behaviour of ConcSpec
NProcs == 2             \* requests in flight at the same time in ConcSpec

Emails == {"a@x", "b@x"}
Books == {"B1", "B2"}
Pages == 0..MaxPage
Procs == 1..NProcs

\* enum BookState
BookStates == {"IS_READING", "READ", "WANTS_TO_READ"}

\* currentPage Int? : <<>> is NULL, <<n>> is the integer n
Null == <<>>
Some(n) == <<n>>
IsSet(e) == e.currentPage # Null
PageOf(e) == e.currentPage[1]

\* pageCount of the volume as the catalog reports it for a bookId
PageCount(bookId) == IF bookId = "B1" THEN 1 ELSE 2

VARIABLES
    users,      \* table User   : sequence of rows, id = index (autoincrement)
    myBooks,    \* table MyBooks: sequence of rows, id = index (autoincrement)
    response,   \* outcome of the last handler that ran to completion (Spec)
    pc,         \* ConcSpec: where each in-flight request stands
    req,        \* ConcSpec: the in-flight request's inputs and locals
    issued      \* ConcSpec: number of requests issued so far

vars == <<users, myBooks, response, pc, req, issued>>

\* --------------------------------------------------------- store services
\* UserService.findOne({email}): the ids of the rows with that email
UserFindOne(us, email) == {i \in DOMAIN us : us[i].email = email}

\* mutant: the User table without the unique index on email
UniqueEmailOk_NoIndex(us, email) == TRUE

\* email String @unique: the insert is rejected when the email is present
UniqueEmailOk(us, email) == UserFindOne(us, email) = {}

\* UserService.createUser
CreateUser(us, email) == Append(us, [id |-> Len(us) + 1, email |-> email])

\* MyBooksService.findOne({bookId, userId}): the candidate rows; the store
\* returns one of them (no ordering is requested) or null when there is none
FindOne(mb, bookId, userId) ==
    {i \in DOMAIN mb : mb[i].bookId = bookId /\ mb[i].userId = userId}

\* MyBooksService.findAll({where: {userId}})
FindAll(mb, userId) == SelectSeq(mb, LAMBDA e : e.userId = userId)

\* MyBooksService.updateMyBook({where: {id}, data}): only the columns in
\* data are written
UpdateMyBook(mb, id, data) ==
    [mb EXCEPT ![id] =
        [f \in DOMAIN mb[id] |-> IF f \in DOMAIN data THEN data[f] ELSE mb[id][f]]]

\* MyBooksService.createMyBook: currentPage is not given, so it is NULL
CreateMyBook(mb, bookId, totalPages, bookState, userId) ==
    Append(mb, [id |-> Len(mb) + 1, userId |-> userId, bookId |-> bookId,
                bookState |-> bookState, currentPage |-> Null,
                totalPages |-> totalPages])

\* ------------------------------------------------------ controller logic
\* mutant: the update of an existing row also clears its progress
AddData_ResetsPage(bookState) == [bookState |-> bookState, currentPage |-> Null]

\* addToMyBooks, the data of the update of an existing row
AddData(bookState) == [bookState |-> bookState]

\* mutant: the last page itself does not count as finished
isPageGreaterThanTotalPage_Strict(found, page) == page > found.totalPages

\* updateBookReading, the data written from the row read earlier
isPageGreaterThanTotalPage(found, page) == page >= found.totalPages

\* mutant: the reported page is written as it is
ReadingData_Unclamped(found, page) ==
    [currentPage |-> Some(page),
     bookState |-> IF page >= found.totalPages THEN "READ" ELSE found.bookState]

\* mutant: progress below the last page marks the book as being read
ReadingData_Promotes(found, page) ==
    [currentPage |-> IF page >= found.totalPages
                     THEN Some(found.totalPages) ELSE Some(page),
     bookState |-> IF page >= found.totalPages THEN "READ" ELSE "IS_READING"]

\* mutant: the page is clamped but bookState is never moved to READ
ReadingData_KeepsState(found, page) ==
    [currentPage |-> IF page >= found.totalPages
                     THEN Some(found.totalPages) ELSE Some(page),
     bookState |-> found.bookState]

ReadingData(found, page) ==
    [currentPage |-> IF isPageGreaterThanTotalPage(found, page)
                     THEN Some(found.totalPages) ELSE Some(page),
     bookState |-> IF isPageGreaterThanTotalPage(found, page)
                   THEN "READ" ELSE found.bookState]

\* myBooks, the three filters over the rows of the user
Filter(books, st) == SelectSeq(books, LAMBDA book : book.bookState = st)

\* mutant: the third filter repeats the state of the second
MyBooksGroups_CopiedFilter(books) ==
    [isReading |-> Filter(books, "IS_READING"),
     read |-> Filter(books, "READ"),
     wantsToRead |-> Filter(books, "READ")]

MyBooksGroups(books) ==
    [isReading |-> Filter(books, "IS_READING"),
     read |-> Filter(books, "READ"),
     wantsToRead |-> Filter(books, "WANTS_TO_READ")]

Resp(status, body) == [status |-> status, body |-> body]
NoBody == <<>>

\* an in-flight request: its inputs, the row findOne returned, its outcome
NoRow == <<>>
Request(op, email, userId, bookId, bookState, page, found, status) ==
    [op |-> op, email |-> email, userId |-> userId, bookId |-> bookId,
     bookState |-> bookState, page |-> page, found |-> found, status |-> status,
     seq |-> issued + 1]
Idle == [Request("none", "", 0, "", "", 0, NoRow, "none") EXCEPT !.seq = 0]

\* ------------------------------------------------ handlers, run atomically
\* What a handler that runs to completion on the tables does: the tables it
\* leaves and the status it answers with ("ok" 2xx, "BadRequest" 400, "Error"
\* 500 for an exception that is not an HttpException). findOne may return any
\* of the candidate rows, so a handler has a set of outcomes.
UserOutcome(us, status) == [users |-> us, status |-> status, body |-> NoBody]
BookOutcome(mb, status, body) == [myBooks |-> mb, status |-> status, body |-> body]

\* POST user/signup
signupResults(us, email) ==
    IF UserFindOne(us, email) # {}
    THEN {UserOutcome(us, "BadRequest")}
    ELSE IF UniqueEmailOk(us, email)
    THEN {UserOutcome(CreateUser(us, email), "ok")}
    ELSE {UserOutcome(us, "Error")}

\* POST /books/my-books: the update of the row found, or the catalog request
\* (which answers or throws) and the insert
addToMyBooksResults(mb, userId, bookId, bookState) ==
    IF FindOne(mb, bookId, userId) # {}
    THEN {BookOutcome(UpdateMyBook(mb, id, AddData(bookState)), "ok", NoBody) :
             id \in FindOne(mb, bookId, userId)}
    ELSE {BookOutcome(CreateMyBook(mb, bookId, PageCount(bookId), bookState, userId),
                      "ok", NoBody),
          BookOutcome(mb, "Error", NoBody)}

\* mutant: a missing row is created instead of the request failing
updateBookReadingResults_Upsert(mb, userId, bookId, page) ==
    IF FindOne(mb, bookId, userId) = {}
    THEN {BookOutcome(Append(mb, [id |-> Len(mb) + 1, userId |-> userId,
                                  bookId |-> bookId, bookState |-> "IS_READING",
                                  currentPage |-> Some(page),
                                  totalPages |-> PageCount(bookId)]),
                      "ok", NoBody)}
    ELSE {BookOutcome(UpdateMyBook(mb, id, ReadingData(mb[id], page)), "ok", NoBody) :
             id \in FindOne(mb, bookId, userId)}

\* PUT /books/:id/reading
updateBookReadingResults(mb, userId, bookId, page) ==
    IF FindOne(mb, bookId, userId) = {}
    THEN {BookOutcome(mb, "Error", NoBody)}
    ELSE {BookOutcome(UpdateMyBook(mb, id, ReadingData(mb[id], page)), "ok", NoBody) :
             id \in FindOne(mb, bookId, userId)}

\* GET /my-books
myBooksResults(mb, userId) ==
    {BookOutcome(mb, "ok", MyBooksGroups(FindAll(mb, userId)))}

Init ==
    /\ issued = 0
    /\ users = <<>>
    /\ myBooks = <<>>
    /\ response = Resp("none", NoBody)
    /\ pc = [p \in Procs |-> "idle"]
    /\ req = [p \in Procs |-> Idle]

signup(email) ==
    /\ \E r \in signupResults(users, email) :
          /\ users' = r.users
          /\ response' = Resp(r.status, r.body)
    /\ UNCHANGED <<myBooks, pc, req, issued>>

\* the AuthGuard has resolved the token to the id of a user
addToMyBooks(userId, bookId, bookState) ==
    /\ userId \in DOMAIN users
    /\ \E r \in addToMyBooksResults(myBooks, userId, bookId, bookState) :
          /\ Len(r.myBooks) <= MaxEntries
          /\ myBooks' = r.myBooks
          /\ response' = Resp(r.status, r.body)
    /\ UNCHANGED <<users, pc, req, issued>>

updateBookReading(userId, bookId, page) ==
    /\ userId \in DOMAIN users
    /\ \E r \in updateBookReadingResults(myBooks, userId, bookId, page) :
          /\ myBooks' = r.myBooks
          /\ response' = Resp(r.status, r.body)
    /\ UNCHANGED <<users, pc, req, issued>>

myBooksList(userId) ==
    /\ userId \in DOMAIN users
    /\ \E r \in myBooksResults(myBooks, userId) :
          /\ myBooks' = r.myBooks
          /\ response' = Resp(r.status, r.body)
    /\ UNCHANGED <<users, pc, req, issued>>

UserIds == 1..Cardinality(Emails)

Next ==
    \/ \E email \in Emails : signup(email)
    \/ \E u \in UserIds, b \in Books, s \in BookStates : addToMyBooks(u, b, s)
    \/ \E u \in UserIds, b \in Books, page \in Pages : updateBookReading(u, b, page)
    \/ \E u \in UserIds : myBooksList(u)

Spec == Init /\ [][Next]_vars

\* ------------------------------- handlers, interleaved at their store calls
\* One action per awaited store call. bcrypt.hash and the catalog request touch
\* no table, so each is taken together with the store call that follows it.
\* myBooks is a single read and writes nothing; it is not interleaved here.
CanStart(p) == pc[p] \in {"idle", "done"} /\ issued < MaxRequests

Finish(p, status) ==
    /\ pc' = [pc EXCEPT ![p] = "done"]
    /\ req' = [req EXCEPT ![p].status = status]

\* signup: await userService.findOne({email}), then the throw or the hash
signupFind(p, email) ==
    /\ CanStart(p)
    /\ issued' = issued + 1
    /\ IF UserFindOne(users, email) # {}
       THEN /\ pc' = [pc EXCEPT ![p] = "done"]
            /\ req' = [req EXCEPT ![p] =
                   Request("signup", email, 0, "", "", 0, NoRow, "BadRequest")]
       ELSE /\ pc' = [pc EXCEPT ![p] = "signup_create"]
            /\ req' = [req EXCEPT ![p] =
                   Request("signup", email, 0, "", "", 0, NoRow, "pending")]
    /\ UNCHANGED <<users, myBooks, response>>

\* signup: await userService.createUser(...)
signupCreate(p) ==
    /\ pc[p] = "signup_create"
    /\ IF UniqueEmailOk(users, req[p].email)
       THEN /\ users' = CreateUser(users, req[p].email)
            /\ Finish(p, "ok")
       ELSE /\ users' = users
            /\ Finish(p, "Error")
    /\ UNCHANGED <<myBooks, response, issued>>

\* addToMyBooks: await myBooksService.findOne({bookId, userId})
addFind(p, userId, bookId, bookState) ==
    /\ CanStart(p)
    /\ userId \in DOMAIN users
    /\ issued' = issued + 1
    /\ IF FindOne(myBooks, bookId, userId) # {}
       THEN \E id \in FindOne(myBooks, bookId, userId) :
            /\ pc' = [pc EXCEPT ![p] = "add_update"]
            /\ req' = [req EXCEPT ![p] =
                   Request("add", "", userId, bookId, bookState, 0, myBooks[id], "pending")]
       ELSE /\ pc' = [pc EXCEPT ![p] = "add_create"]
            /\ req' = [req EXCEPT ![p] =
                   Request("add", "", userId, bookId, bookState, 0, NoRow, "pending")]
    /\ UNCHANGED <<users, myBooks, response>>

\* addToMyBooks: await myBooksService.updateMyBook(...)
addUpdate(p) ==
    /\ pc[p] = "add_update"
    /\ myBooks' = UpdateMyBook(myBooks, req[p].found.id, AddData(req[p].bookState))
    /\ Finish(p, "ok")
    /\ UNCHANGED <<users, response, issued>>

\* addToMyBooks: await axios.get(...) answers, await createMyBook(...)
addCreate(p) ==
    /\ pc[p] = "add_create"
    /\ myBooks' = CreateMyBook(myBooks, req[p].bookId, PageCount(req[p].bookId),
                               req[p].bookState, req[p].userId)
    /\ Finish(p, "ok")
    /\ UNCHANGED <<users, response, issued>>

\* addToMyBooks: await axios.get(...) throws
addUpstream(p) ==
    /\ pc[p] = "add_create"
    /\ Finish(p, "Error")
    /\ UNCHANGED <<users, myBooks, response, issued>>

\* updateBookReading: await myBooksService.findOne({bookId: id, userId})
readingFind(p, userId, bookId, page) ==
    /\ CanStart(p)
    /\ userId \in DOMAIN users
    /\ issued' = issued + 1
    /\ IF FindOne(myBooks, bookId, userId) = {}
       THEN /\ pc' = [pc EXCEPT ![p] = "done"]
            /\ req' = [req EXCEPT ![p] =
                   Request("reading", "", userId, bookId, "", page, NoRow, "Error")]
       ELSE \E id \in FindOne(myBooks, bookId, userId) :
            /\ pc' = [pc EXCEPT ![p] = "reading_update"]
            /\ req' = [req EXCEPT ![p] =
                   Request("reading", "", userId, bookId, "", page, myBooks[id], "pending")]
    /\ UNCHANGED <<users, myBooks, response>>

\* updateBookReading: await myBooksService.updateMyBook(...)
readingUpdate(p) ==
    /\ pc[p] = "reading_update"
    /\ myBooks' = UpdateMyBook(myBooks, req[p].found.id,
                               ReadingData(req[p].found, req[p].page))
    /\ Finish(p, "ok")
    /\ UNCHANGED <<users, response, issued>>

ConcNext ==
    \/ \E p \in Procs, email \in Emails : signupFind(p, email)
    \/ \E p \in Procs : signupCreate(p)
    \/ \E p \in Procs, u \in UserIds, b \in Books, s \in BookStates : addFind(p, u, b, s)
    \/ \E p \in Procs : addUpdate(p)
    \/ \E p \in Procs : addCreate(p)
    \/ \E p \in Procs : addUpstream(p)
    \/ \E p \in Procs, u \in UserIds, b \in Books, page \in Pages : readingFind(p, u, b, page)
    \/ \E p \in Procs : readingUpdate(p)

ConcSpec == Init /\ [][ConcNext]_vars

\* interleaved signup requests only
SignupNext ==
    \/ \E p \in Procs, email \in Emails : signupFind(p, email)
    \/ \E p \in Procs : signupCreate(p)

SignupSpec == Init /\ [][SignupNext]_vars

\* ------------------------------------------------------------- properties
Rows == DOMAIN myBooks
SamePair(i, j) ==
    myBooks[i].userId = myBooks[j].userId /\ myBooks[i].bookId = myBooks[j].bookId

\* C1: after any sequence of addToMyBooks and updateBookReading calls, every
\* row whose currentPage is set has currentPage <= totalPages, whatever pages
\* were reported.
C1_PageWithinTotal ==
    \A i \in Rows : IsSet(myBooks[i]) => PageOf(myBooks[i]) <= myBooks[i].totalPages

C1_Witness ==
    \E i \in Rows : /\ IsSet(myBooks[i])
                    /\ PageOf(myBooks[i]) = myBooks[i].totalPages
                    /\ myBooks[i].totalPages < MaxPage
                    /\ response.status = "ok"

\* C2: updateBookReading on an existing row with page >= totalPages leaves the
\* row with bookState READ and currentPage = totalPages, whatever they were.
C2_LastPageForcesRead ==
    \A u \in DOMAIN users, b \in Books, page \in Pages :
       \A id \in FindOne(myBooks, b, u) :
          page >= myBooks[id].totalPages =>
             \A r \in updateBookReadingResults(myBooks, u, b, page) :
                /\ r.status = "ok"
                /\ r.myBooks[id].bookState = "READ"
                /\ r.myBooks[id].currentPage = Some(myBooks[id].totalPages)

C2_Witness ==
    \E i \in Rows : /\ myBooks[i].bookState = "READ"
                    /\ myBooks[i].currentPage = Some(myBooks[i].totalPages)

\* C3: updateBookReading on an existing row with page < totalPages sets
\* currentPage to page and leaves bookState as it was before the call; a row
\* in WANTS_TO_READ is not promoted to IS_READING.
C3_BelowLastPageKeepsState ==
    \A u \in DOMAIN users, b \in Books, page \in Pages :
       \A id \in FindOne(myBooks, b, u) :
          page < myBooks[id].totalPages =>
             \A r \in updateBookReadingResults(myBooks, u, b, page) :
                /\ r.status = "ok"
                /\ r.myBooks[id].currentPage = Some(page)
                /\ r.myBooks[id].bookState = myBooks[id].bookState

C3_Witness ==
    \E i \in Rows : /\ myBooks[i].bookState = "WANTS_TO_READ"
                    /\ IsSet(myBooks[i])
                    /\ PageOf(myBooks[i]) < myBooks[i].totalPages

\* C4: updateBookReading for a (userId, bookId) pair without a row fails with
\* an error and leaves the MyBooks table as it was: no row is created and no
\* row of this or another user is modified.
C4_MissingRowFails ==
    \A u \in DOMAIN users, b \in Books, page \in Pages :
       FindOne(myBooks, b, u) = {} =>
          \A r \in updateBookReadingResults(myBooks, u, b, page) :
             /\ r.status = "Error"
             /\ r.myBooks = myBooks

C4_Witness ==
    /\ response.status = "Error"
    /\ \E i, j \in Rows : myBooks[i].userId # myBooks[j].userId
    /\ \E u \in DOMAIN users, b \in Books : FindOne(myBooks, b, u) = {}

C6_OneRowPerPair ==
    \A i, j \in Rows : SamePair(i, j) => i = j

EmailsUnique ==
    \A i, j \in DOMAIN users : users[i].email = users[j].email => i = j

C8_SignupKeepsEmailsUnique ==
    /\ [][\A p \in Procs, email \in Emails :
            (signupFind(p, email) /\ UserFindOne(users, email) # {}) =>
               /\ pc'[p] = "done"
               /\ req'[p].status = "BadRequest"
               /\ users' = users]_vars
    /\ []EmailsUnique

C8_Witness ==
    /\ Len(users) = 2
    /\ \E p, q \in Procs :
          /\ req[p].op = "signup" /\ req[p].status = "Error"
          /\ req[q].op = "signup" /\ req[q].status = "BadRequest"

\* C9: myBooks(userId) returns three groups that partition the rows of the
\* user: each row of the user is in exactly one group, the one of its
\* bookState, no row of another user is in a group, and no row changes.
Occurrences(seq, row) == Cardinality({k \in DOMAIN seq : seq[k] = row})
GroupOf(g, st) ==
    IF st = "IS_READING" THEN g.isReading
    ELSE IF st = "READ" THEN g.read ELSE g.wantsToRead

C9_GroupsPartitionUserRows ==
    \A u \in DOMAIN users : \A r \in myBooksResults(myBooks, u) :
       /\ r.myBooks = myBooks
       /\ \A i \in Rows : \A st \in BookStates :
             Occurrences(GroupOf(r.body, st), myBooks[i]) =
                IF myBooks[i].userId = u /\ myBooks[i].bookState = st THEN 1 ELSE 0
       /\ \A st \in BookStates : \A k \in DOMAIN GroupOf(r.body, st) :
             \E i \in Rows : myBooks[i] = GroupOf(r.body, st)[k]

C9_Witness ==
    /\ response.body # NoBody
    /\ Len(response.body.isReading) + Len(response.body.read)
          + Len(response.body.wantsToRead) = 1
    /\ Len(myBooks) = 2

\* C10: when an addToMyBooks on an existing row and an updateBookReading with
\* page < totalPages on the same row are the last two requests and both have
\* completed, in any interleaving of their store calls, the row's bookState is
\* the state addToMyBooks requested.
C10_StateChangeNotLost ==
    \A p, q \in Procs :
        (/\ pc[p] = "done" /\ pc[q] = "done"
         /\ {req[p].seq, req[q].seq} = {issued, issued - 1}
         /\ req[p].op = "add" /\ req[p].status = "ok" /\ req[p].found # NoRow
         /\ req[q].op = "reading" /\ req[q].status = "ok"
         /\ req[q].found.id = req[p].found.id
         /\ req[q].page < req[q].found.totalPages)
            => myBooks[req[p].found.id].bookState = req[p].bookState

====
